---- MODULE Spec2Model ----
(***************************************************************************)
(* The knavigator task engine: the driver Run, the engine's RunTask,       *)
(* GetTask, SetObjInfo, GetObjInfo and Reset (pkg/engine/engine.go), and   *)
(* the CheckPod task with its no-timeout and watch modes (check pod task). *)
(*                                                                         *)
(* Strings of the program are strings here; pod names are the numbers      *)
(* 1..MaxPods; an error is the record [kind, task] (the message kind and   *)
(* the index of the task whose RunTask produced it), nil is NIL.           *)
(***************************************************************************)
EXTENDS Integers, Sequences, FiniteSets, TLC

\* Longest task list of the general task lists.
MaxTasks == 3
\* Most pods one SubmitObj expects in the watch scenarios.
MaxPods == 2
\* Most pods of the scenarios in which termination is checked.
FairPods == 1

VARIABLES
    tasks,      \* testconfig.Tasks, the task list given to Run
    pc,         \* position of the driver: run, exec, checkPods, watch, reset, done
    idx,        \* index of the task the loop of Run is at
    errExec,    \* Run's errExec
    errReset,   \* Run's errReset
    ret,        \* what Run returned
    objMap,     \* eng.objMap: task id -> ObjInfo
    canceled,   \* the context given to Run has been cancelled
    podPhase,   \* cluster: phase of each pod ("Absent": the pod does not exist)
    podNode,    \* cluster: node of each pod ("" before it is scheduled)
    task,       \* CheckPod: the CheckPodTask that Exec runs
    info,       \* CheckPod: the ObjInfo that Exec looked up
    chkIdx,     \* checkPods: position in info.Pods
    wctx,       \* watchPods: the context derived with the timeout
    podMap,     \* watchPods: the keys of podMap (the remaining pods)
    vp,         \* informer callback and List goroutine: position in verifyPod
    items,      \* List goroutine: list.Items not yet visited
    log,        \* history: the calls GetTask, Exec, SetObjInfo, Reset and RunTask's returns
    matched,    \* history: expected pods whose phase has equalled status during the watch
    watchRet    \* history: what watchPods returned and the remaining set at that moment

vars == <<tasks, pc, idx, errExec, errReset, ret, objMap, canceled,
          podPhase, podNode, task, info, chkIdx, wctx, podMap, vp, items, log,
          matched, watchRet>>

driverVars == <<idx, errExec, errReset, ret>>
clusterVars == <<podPhase, podNode>>
checkVars == <<task, info, chkIdx>>
watchVars == <<wctx, podMap, vp, items, watchRet>>

----------------------------------------------------------------------------
\* Values

NIL == [kind |-> "nil", task |-> 0]
Err(k, i) == [kind |-> k, task |-> i]

Pods == 1..MaxPods
Nodes == {"gpuNode", "cpuNode"}
\* node.Labels["nodeType"] = "gpu"
NodeHasLabels(n) == n = "gpuNode"

RefKinds == {"UpdateObj", "CheckObj", "DeleteObj", "CheckPod"}

\* A config.Task with the parameters of its kind. pods: the number of pod names
\* the SubmitObj enumerates; labels: nodeLabels is {nodeType: gpu} (TRUE) or
\* empty; timeout: 0 or a positive duration; valid: the parameters decode.
Task(type, id, ref, pods, status, labels, timeout, valid) ==
    [type |-> type, id |-> id, ref |-> ref, pods |-> pods, status |-> status,
     labels |-> labels, timeout |-> timeout, valid |-> valid]

NoTask == Task("", "", "", 0, "", FALSE, 0, FALSE)
NoPod == [name |-> 0, phase |-> "", node |-> ""]

ObjInfoOf(cfg) == [pods |-> [i \in 1..cfg.pods |-> i]]

EngineTasks ==
    { Task("SubmitObj", "job", "", 1, "", FALSE, 0, TRUE),
      Task("SubmitObj", "job", "", 0, "", FALSE, 0, TRUE),
      Task("SubmitObj", "x", "", 0, "", FALSE, 0, FALSE),
      Task("UpdateObj", "upd", "job", 0, "", FALSE, 0, TRUE),
      Task("CheckObj", "chk", "x", 0, "", FALSE, 0, TRUE),
      Task("DeleteObj", "del", "job", 0, "", FALSE, 0, TRUE),
      Task("UpdateNodes", "nodes", "", 0, "", FALSE, 0, TRUE),
      Task("CheckPod", "status", "job", 0, "Running", TRUE, 0, TRUE),
      Task("CheckPod", "status", "job", 0, "Completed", FALSE, 0, TRUE),
      Task("CheckPod", "status", "job", 0, "", FALSE, 1, TRUE),
      Task("Sleep", "sleep", "", 0, "", FALSE, 1, TRUE),
      Task("Pause", "pause", "", 0, "", FALSE, 0, TRUE),
      Task("Unknown", "u", "", 0, "", FALSE, 0, TRUE) }

\* The lists of at most n elements of S.
SeqsUpTo(S, n) == UNION {[1..k -> S] : k \in 0..n}

\* status and nodeLabels of the CheckPod tasks of the watch scenarios.
CheckPodParams ==
    { <<"Running", TRUE>>, <<"Completed", FALSE>>, <<"", TRUE>>, <<"", FALSE>> }

\* resources/tests/volcano/test-job.yml with its parameters varied.
WatchLists ==
    { << Task("SubmitObj", "job", "", n, "", FALSE, 0, TRUE),
         Task("CheckPod", "status", "job", 0, sl[1], sl[2], to, TRUE) >> :
        n \in 0..MaxPods, sl \in CheckPodParams, to \in {0, 1} }

TaskLists == SeqsUpTo(EngineTasks, MaxTasks) \cup WatchLists

\* The watch scenarios of at most FairPods pods.
FairLists == {l \in WatchLists : l[1].pods <= FairPods}

----------------------------------------------------------------------------
\* engine.go

\* validate of CheckPodTask
validate(cfg) ==
    IF cfg.ref = "" THEN "Validation"
    ELSE IF cfg.status = "" /\ ~cfg.labels THEN "Validation"
    ELSE "nil"

\* new<Kind>Task: the constructor of the task's kind
NewTask(cfg) ==
    IF cfg.type = "CheckPod" THEN validate(cfg)
    ELSE IF cfg.valid THEN "nil" ELSE "Validation"

\* GetTask with the lookup of RefTaskID left out of the CheckPod case.
GetTaskNoCheckPodRef(cfg, m) ==
    CASE cfg.type \in {"SubmitObj", "CheckPod", "UpdateNodes", "Sleep"} -> NewTask(cfg)
      [] cfg.type \in RefKinds \ {"CheckPod"} ->
            IF NewTask(cfg) # "nil" THEN NewTask(cfg)
            ELSE IF cfg.ref \notin DOMAIN m THEN "Unreferenced"
            ELSE "nil"
      [] cfg.type = "Pause" -> "nil"
      [] OTHER -> "Unsupported"

GetTask(cfg, m) ==
    CASE cfg.type = "SubmitObj" -> NewTask(cfg)
      [] cfg.type \in RefKinds ->
            IF NewTask(cfg) # "nil" THEN NewTask(cfg)
            ELSE IF cfg.ref \notin DOMAIN m THEN "Unreferenced"
            ELSE "nil"
      [] cfg.type \in {"UpdateNodes", "Sleep"} -> NewTask(cfg)
      [] cfg.type = "Pause" -> "nil"
      [] OTHER -> "Unsupported"

\* SetObjInfo without the duplicate test: the entry is overwritten.
SetObjInfoOverwrite(m, taskID, inf) ==
    [err |-> "nil",
     objMap |-> [k \in DOMAIN m \cup {taskID} |-> IF k = taskID THEN inf ELSE m[k]]]

\* SetObjInfo assigning before the duplicate test.
SetObjInfoAssignFirst(m, taskID, inf) ==
    [err |-> IF taskID \in DOMAIN m THEN "Duplicate" ELSE "nil",
     objMap |-> [k \in DOMAIN m \cup {taskID} |-> IF k = taskID THEN inf ELSE m[k]]]

SetObjInfo(m, taskID, inf) ==
    IF taskID \in DOMAIN m
    THEN [err |-> "Duplicate", objMap |-> m]
    ELSE [err |-> "nil",
          objMap |-> [k \in DOMAIN m \cup {taskID} |->
                         IF k = taskID THEN inf ELSE m[k]]]

GetObjInfo(m, taskID) ==
    IF taskID \notin DOMAIN m
    THEN [err |-> "MissingID", info |-> [pods |-> <<>>]]
    ELSE [err |-> "nil", info |-> m[taskID]]

Event(op, i, e) == [op |-> op, i |-> i, err |-> e]

\* The loop of Run without its break.
ReturnNoBreak(e, evs) ==
    /\ errExec' = (IF e = "nil" THEN NIL ELSE Err(e, idx))
    /\ log' = log \o evs \o <<Event("Ret", idx, e)>>
    /\ IF idx = Len(tasks)
       THEN pc' = "reset" /\ idx' = idx
       ELSE pc' = "run" /\ idx' = idx + 1

\* The loop of Run returning the error where it should break.
ReturnFromLoop(e, evs) ==
    /\ errExec' = (IF e = "nil" THEN NIL ELSE Err(e, idx))
    /\ log' = log \o evs \o <<Event("Ret", idx, e)>>
    /\ IF e # "nil"
       THEN pc' = "done" /\ idx' = idx
       ELSE IF idx = Len(tasks)
       THEN pc' = "reset" /\ idx' = idx
       ELSE pc' = "run" /\ idx' = idx + 1

\* RunTask has returned err to the loop of Run: break on an error, else next task.
Return(e, evs) ==
    /\ errExec' = (IF e = "nil" THEN NIL ELSE Err(e, idx))
    /\ log' = log \o evs \o <<Event("Ret", idx, e)>>
    /\ IF e # "nil" \/ idx = Len(tasks)
       THEN pc' = "reset" /\ idx' = idx
       ELSE pc' = "run" /\ idx' = idx + 1

Init ==
    /\ tasks \in TaskLists
    /\ pc = (IF tasks = <<>> THEN "reset" ELSE "run")
    /\ idx = 1
    /\ errExec = NIL
    /\ errReset = NIL
    /\ ret = NIL
    /\ objMap = <<>>
    /\ canceled = FALSE
    /\ podPhase = [p \in Pods |-> "Absent"]
    /\ podNode = [p \in Pods |-> ""]
    /\ task = NoTask
    /\ info = [pods |-> <<>>]
    /\ chkIdx = 1
    /\ wctx = "none"
    /\ podMap = {}
    /\ vp = [q \in {"informer", "lister"} |-> [pc |-> "off", obj |-> NoPod, err |-> "nil"]]
    /\ items = <<>>
    /\ log = <<>>
    /\ matched = {}
    /\ watchRet = [err |-> "none", remaining |-> {}]

----------------------------------------------------------------------------
\* Run and RunTask

\* The loop of Run calls RunTask: GetTask, then execRunnable starts r.Exec.
RunTask ==
    /\ pc = "run"
    /\ LET cfg == tasks[idx]
           e == GetTask(cfg, objMap)
       IN  IF e # "nil"
           THEN /\ Return(e, <<Event("GetTask", idx, e)>>)
           ELSE /\ pc' = "exec"
                /\ log' = log \o <<Event("GetTask", idx, e), Event("Exec", idx, "nil")>>
                /\ UNCHANGED <<idx, errExec>>
    /\ UNCHANGED <<tasks, errReset, ret, objMap, canceled, clusterVars,
                   checkVars, watchVars, matched>>

\* SubmitObj.Exec: create the objects, then register the ObjInfo.
ExecSubmitObj ==
    /\ pc = "exec"
    /\ tasks[idx].type = "SubmitObj"
    /\ \E created \in BOOLEAN :
         IF canceled \/ ~created
         THEN /\ Return("Adapter", <<>>)
              /\ objMap' = objMap
         ELSE LET r == SetObjInfo(objMap, tasks[idx].id, ObjInfoOf(tasks[idx]))
              IN  /\ objMap' = r.objMap
                  /\ Return(r.err, <<Event("SetObjInfo", idx, r.err)>>)
    /\ UNCHANGED <<tasks, errReset, ret, canceled, clusterVars,
                   checkVars, watchVars, matched>>

\* UpdateObj.Exec, CheckObj.Exec, DeleteObj.Exec, UpdateNodes.Exec: cluster
\* calls that succeed or fail; none of them writes the Registry.
ExecClusterTask ==
    /\ pc = "exec"
    /\ tasks[idx].type \in {"UpdateObj", "CheckObj", "DeleteObj", "UpdateNodes"}
    /\ \E ok \in BOOLEAN :
         Return(IF canceled \/ ~ok THEN "Adapter" ELSE "nil", <<>>)
    /\ UNCHANGED <<tasks, errReset, ret, objMap, canceled, clusterVars,
                   checkVars, watchVars, matched>>

\* Sleep.Exec: the duration elapses, or the context is cancelled first.
ExecSleep ==
    /\ pc = "exec"
    /\ tasks[idx].type = "Sleep"
    /\ Return(IF canceled THEN "Canceled" ELSE "nil", <<>>)
    /\ UNCHANGED <<tasks, errReset, ret, objMap, canceled, clusterVars,
                   checkVars, watchVars, matched>>

\* Pause.Exec: blocks until the context is cancelled.
ExecPause ==
    /\ pc = "exec"
    /\ tasks[idx].type = "Pause"
    /\ canceled
    /\ Return("Canceled", <<>>)
    /\ UNCHANGED <<tasks, errReset, ret, objMap, canceled, clusterVars,
                   checkVars, watchVars, matched>>

\* What Reset of an Engine may return: Eng.Reset returns nil, and Run takes
\* any Engine, whose Reset may fail.
ResetResults == {"nil", "ResetFailed"}

\* Run testing errReset before errExec.
RunResultResetFirst(eExec, eReset) == IF eReset # NIL THEN eReset ELSE eExec

\* What Run returns, given its errExec and errReset.
RunResult(eExec, eReset) == IF eExec # NIL THEN eExec ELSE eReset

\* Run after its loop: the call of Reset and the return.
Reset ==
    /\ pc = "reset"
    /\ \E r \in ResetResults :
         /\ errReset' = (IF r = "nil" THEN NIL ELSE Err(r, 0))
         /\ log' = Append(log, Event("Reset", 0, r))
    /\ ret' = RunResult(errExec, errReset')
    /\ pc' = "done"
    /\ UNCHANGED <<tasks, idx, errExec, objMap, canceled, clusterVars,
                   checkVars, watchVars, matched>>

\* The caller of Run cancels ctx; the context watchPods derived from it is done too.
Cancel ==
    /\ pc # "done"
    /\ ~canceled
    /\ canceled' = TRUE
    /\ wctx' = (IF wctx = "live" THEN "Canceled" ELSE wctx)
    /\ UNCHANGED <<tasks, pc, driverVars, objMap, clusterVars, checkVars,
                   podMap, vp, items, watchRet, log, matched>>

----------------------------------------------------------------------------
\* CheckPodTask

Range(f) == {f[i] : i \in DOMAIN f}
PodObj(p) == [name |-> p, phase |-> podPhase[p], node |-> podNode[p]]

\* verifyLabels; the Get of the node fails once its context is done.
verifyLabels(t, pod, ctxDone) ==
    IF ~t.labels \/ pod.phase # "Running" THEN "nil"
    ELSE IF ctxDone THEN "GetNodeFailed"
    ELSE IF ~NodeHasLabels(pod.node) THEN "LabelMismatch"
    ELSE "nil"

\* The loop body of checkPods leaving out the call of verifyLabels.
checkPodNoLabels(t, name) ==
    IF canceled \/ podPhase[name] = "Absent" THEN "GetPodFailed"
    ELSE IF podPhase[name] # t.status THEN "Mismatch"
    ELSE "nil"

\* The body of the loop of checkPods for the pod called name.
checkPod(t, name) ==
    IF canceled \/ podPhase[name] = "Absent" THEN "GetPodFailed"
    ELSE IF podPhase[name] # t.status THEN "Mismatch"
    ELSE verifyLabels(t, PodObj(name), canceled)

\* podMap after the loop of Set calls.
NewPodMap(inf) == Range(inf.pods)

\* utils.SyncMap.Delete: removes the key and returns the size left.
SyncMapDelete(m, k) == [map |-> m \ {k}, size |-> Cardinality(m \ {k})]

\* Where a context goes on when verifyPod returns.
After(q) == IF q = "informer" THEN "idle" ELSE "iter"

\* verifyPod up to the Delete: the lookup in podMap and verifyLabels.
VerifyPodGet(q, o) ==
    IF o.name \in podMap
    THEN LET e == verifyLabels(task, o, wctx # "live")
         IN  IF e # "nil"
             THEN [pc |-> "send", obj |-> o, err |-> e]
             ELSE [pc |-> "delete", obj |-> o, err |-> "nil"]
    ELSE [pc |-> After(q), obj |-> NoPod, err |-> "nil"]

\* watchPods starting the List goroutine with no informer set up.
StartContextsListOnly ==
    [vp EXCEPT !["informer"] = [pc |-> "off", obj |-> NoPod, err |-> "nil"],
               !["lister"] = [pc |-> "list", obj |-> NoPod, err |-> "nil"]]

\* The contexts of watchPods after AddEventHandler and the two go statements:
\* informer.Run is started and not yet running, the List goroutine is
\* before its List.
StartContexts ==
    [vp EXCEPT !["informer"] = [pc |-> "starting", obj |-> NoPod, err |-> "nil"],
               !["lister"] = [pc |-> "list", obj |-> NoPod, err |-> "nil"]]

\* Exec testing for an empty pod list only where it calls checkPods.
ExecCheckPodEmptyInCheckPods ==
    /\ pc = "exec"
    /\ tasks[idx].type = "CheckPod"
    /\ LET r == GetObjInfo(objMap, tasks[idx].ref)
       IN  IF r.err # "nil"
           THEN /\ Return(r.err, <<>>)
                /\ UNCHANGED <<checkVars, watchVars, matched>>
           ELSE IF tasks[idx].timeout = 0 /\ Len(r.info.pods) = 0
           THEN /\ Return("nil", <<>>)
                /\ UNCHANGED <<checkVars, watchVars, matched>>
           ELSE IF tasks[idx].timeout = 0
           THEN /\ pc' = "checkPods"
                /\ task' = tasks[idx]
                /\ info' = r.info
                /\ chkIdx' = 1
                /\ UNCHANGED <<idx, errExec, log, watchVars, matched>>
           ELSE /\ pc' = "watch"
                /\ task' = tasks[idx]
                /\ info' = r.info
                /\ wctx' = (IF canceled THEN "Canceled" ELSE "live")
                /\ podMap' = NewPodMap(r.info)
                /\ vp' = StartContexts
                /\ items' = <<>>
                /\ matched' = {p \in Range(r.info.pods) : podPhase[p] = tasks[idx].status}
                /\ watchRet' = [err |-> "none", remaining |-> {}]
                /\ UNCHANGED <<idx, errExec, log, chkIdx>>
    /\ UNCHANGED <<tasks, errReset, ret, objMap, canceled, clusterVars>>

\* CheckPodTask.Exec, and watchPods up to its select loop.
ExecCheckPod ==
    /\ pc = "exec"
    /\ tasks[idx].type = "CheckPod"
    /\ LET r == GetObjInfo(objMap, tasks[idx].ref)
       IN  IF r.err # "nil"
           THEN /\ Return(r.err, <<>>)
                /\ UNCHANGED <<checkVars, watchVars, matched>>
           ELSE IF Len(r.info.pods) = 0
           THEN /\ Return("nil", <<>>)
                /\ UNCHANGED <<checkVars, watchVars, matched>>
           ELSE IF tasks[idx].timeout = 0
           THEN /\ pc' = "checkPods"
                /\ task' = tasks[idx]
                /\ info' = r.info
                /\ chkIdx' = 1
                /\ UNCHANGED <<idx, errExec, log, watchVars, matched>>
           ELSE /\ pc' = "watch"
                /\ task' = tasks[idx]
                /\ info' = r.info
                /\ wctx' = (IF canceled THEN "Canceled" ELSE "live")
                /\ podMap' = NewPodMap(r.info)
                /\ vp' = StartContexts
                /\ items' = <<>>
                /\ matched' = {p \in Range(r.info.pods) : podPhase[p] = tasks[idx].status}
                /\ watchRet' = [err |-> "none", remaining |-> {}]
                /\ UNCHANGED <<idx, errExec, log, chkIdx>>
    /\ UNCHANGED <<tasks, errReset, ret, objMap, canceled, clusterVars>>

\* One round of the loop of checkPods.
CheckPodsStep ==
    /\ pc = "checkPods"
    /\ LET e == checkPod(task, info.pods[chkIdx])
       IN  IF e # "nil"
           THEN Return(e, <<>>) /\ chkIdx' = chkIdx
           ELSE IF chkIdx = Len(info.pods)
           THEN Return("nil", <<>>) /\ chkIdx' = chkIdx
           ELSE /\ chkIdx' = chkIdx + 1
                /\ UNCHANGED <<pc, idx, errExec, log>>
    /\ UNCHANGED <<tasks, errReset, ret, objMap, canceled, clusterVars,
                   task, info, watchVars, matched>>

\* watchPods returns e: the deferred cancel ends the derived context.
WatchReturn(e) ==
    /\ watchRet' = [err |-> e, remaining |-> podMap]
    /\ wctx' = (IF wctx = "live" THEN "Canceled" ELSE wctx)
    /\ Return(e, <<>>)

\* select: case <-ctx.Done()
WatchCtxDone ==
    /\ pc = "watch"
    /\ wctx \in {"Timeout", "Canceled"}
    /\ WatchReturn(wctx)
    /\ UNCHANGED <<tasks, errReset, ret, objMap, canceled, clusterVars,
                   checkVars, podMap, vp, items, matched>>

\* select: case err := <-errs, the rendezvous with the context q blocked in
\* its send; q goes on after the send.
WatchRecv(q) ==
    /\ pc = "watch"
    /\ vp[q].pc \in {"send", "sendList"}
    /\ WatchReturn(vp[q].err)
    /\ vp' = [vp EXCEPT ![q] = [pc |-> IF vp[q].pc = "sendList" THEN "done" ELSE After(q),
                                obj |-> NoPod, err |-> "nil"]]
    /\ UNCHANGED <<tasks, errReset, ret, objMap, canceled, clusterVars,
                   checkVars, podMap, items, matched>>

\* A context made without a deadline: the passing of time does not end it.
DeadlineNever ==
    /\ pc = "watch"
    /\ wctx = "live"
    /\ wctx' = wctx
    /\ UNCHANGED <<tasks, pc, driverVars, objMap, canceled, clusterVars,
                   checkVars, podMap, vp, items, watchRet, log, matched>>

\* The deadline of context.WithTimeout passes.
DeadlineExpires ==
    /\ pc = "watch"
    /\ wctx = "live"
    /\ wctx' = "Timeout"
    /\ UNCHANGED <<tasks, pc, driverVars, objMap, canceled, clusterVars,
                   checkVars, podMap, vp, items, watchRet, log, matched>>

\* The goroutine of informer.Run gets to run: from now on the informer
\* delivers events. Run returns at once if its stop channel is closed.
InformerStart ==
    /\ vp["informer"].pc = "starting"
    /\ wctx = "live"
    /\ vp' = [vp EXCEPT !["informer"].pc = "idle"]
    /\ UNCHANGED <<tasks, pc, driverVars, objMap, canceled, clusterVars,
                   checkVars, wctx, podMap, items, watchRet, log, matched>>

\* The informer, running until its context is done, calls AddFunc or
\* UpdateFunc with pod p as it is now.
InformerEvent(p) ==
    /\ vp["informer"].pc = "idle"
    /\ wctx = "live"
    /\ podPhase[p] # "Absent"
    /\ vp' = [vp EXCEPT !["informer"] = VerifyPodGet("informer", PodObj(p))]
    /\ UNCHANGED <<tasks, pc, driverVars, objMap, canceled, clusterVars,
                   checkVars, wctx, podMap, items, watchRet, log, matched>>

\* The List goroutine: the List call.
ListPods ==
    /\ vp["lister"].pc = "list"
    /\ \E ok \in BOOLEAN :
         IF wctx # "live" \/ ~ok
         THEN /\ vp' = [vp EXCEPT !["lister"] = [pc |-> "sendList", obj |-> NoPod, err |-> "ListFailed"]]
              /\ items' = items
         ELSE /\ vp' = [vp EXCEPT !["lister"].pc = "iter"]
              /\ items' = [i \in 1..Cardinality({p \in Pods : podPhase[p] # "Absent"}) |->
                              PodObj(CHOOSE p \in Pods :
                                  /\ podPhase[p] # "Absent"
                                  /\ Cardinality({r \in Pods : r < p /\ podPhase[r] # "Absent"}) = i - 1)]
    /\ UNCHANGED <<tasks, pc, driverVars, objMap, canceled, clusterVars,
                   checkVars, wctx, podMap, watchRet, log, matched>>

\* The List goroutine: one round of the loop over list.Items.
ListIter ==
    /\ vp["lister"].pc = "iter"
    /\ IF items = <<>> \/ Cardinality(podMap) = 0
       THEN /\ vp' = [vp EXCEPT !["lister"].pc = "done"]
            /\ items' = <<>>
       ELSE /\ vp' = [vp EXCEPT !["lister"] = VerifyPodGet("lister", Head(items))]
            /\ items' = Tail(items)
    /\ UNCHANGED <<tasks, pc, driverVars, objMap, canceled, clusterVars,
                   checkVars, wctx, podMap, watchRet, log, matched>>

\* verifyPod putting a pod whose phase is not the status back with podMap.Set.
VerifyPodDeleteRearm(q) ==
    /\ vp[q].pc = "delete"
    /\ podMap' = (IF vp[q].obj.phase = task.status
                  THEN podMap \ {vp[q].obj.name}
                  ELSE podMap \cup {vp[q].obj.name})
    /\ vp' = [vp EXCEPT ![q] = IF Cardinality(podMap') = 0
                               THEN [pc |-> "send", obj |-> NoPod, err |-> "nil"]
                               ELSE [pc |-> After(q), obj |-> NoPod, err |-> "nil"]]
    /\ UNCHANGED <<tasks, pc, driverVars, objMap, canceled, clusterVars,
                   checkVars, wctx, items, watchRet, log, matched>>

\* verifyPod signalling success one pod early (sz <= 1).
VerifyPodDeleteEarly(q) ==
    /\ vp[q].pc = "delete"
    /\ LET r == SyncMapDelete(podMap, vp[q].obj.name)
       IN  /\ podMap' = r.map
           /\ vp' = [vp EXCEPT ![q] = IF r.size <= 1
                                      THEN [pc |-> "send", obj |-> NoPod, err |-> "nil"]
                                      ELSE [pc |-> After(q), obj |-> NoPod, err |-> "nil"]]
    /\ UNCHANGED <<tasks, pc, driverVars, objMap, canceled, clusterVars,
                   checkVars, wctx, items, watchRet, log, matched>>

\* verifyPod: podMap.Delete, and the send of nil when nothing is left.
VerifyPodDelete(q) ==
    /\ vp[q].pc = "delete"
    /\ LET r == SyncMapDelete(podMap, vp[q].obj.name)
       IN  /\ podMap' = r.map
           /\ vp' = [vp EXCEPT ![q] = IF r.size = 0
                                      THEN [pc |-> "send", obj |-> NoPod, err |-> "nil"]
                                      ELSE [pc |-> After(q), obj |-> NoPod, err |-> "nil"]]
    /\ UNCHANGED <<tasks, pc, driverVars, objMap, canceled, clusterVars,
                   checkVars, wctx, items, watchRet, log, matched>>

----------------------------------------------------------------------------
\* The cluster: the control plane creates, schedules and completes the pods
\* that the registered objects name.

Submitted == UNION {Range(objMap[k].pods) : k \in DOMAIN objMap}

\* Some context of a CheckPod is going to read the cluster. A move of the
\* cluster that nothing reads before the next such moment is taken then.
Observed ==
    \/ pc \in {"checkPods", "watch"}
    \/ pc = "exec" /\ tasks[idx].type = "CheckPod"
    \/ vp["lister"].pc = "list"

SetPhase(p, ph) ==
    /\ podPhase' = [podPhase EXCEPT ![p] = ph]
    /\ matched' = IF pc = "watch" /\ p \in Range(info.pods) /\ ph = task.status
                  THEN matched \cup {p} ELSE matched

CreatePod(p) ==
    /\ Observed
    /\ p \in Submitted
    /\ podPhase[p] = "Absent"
    /\ SetPhase(p, "Pending")
    /\ UNCHANGED <<tasks, pc, driverVars, objMap, canceled, podNode,
                   checkVars, watchVars, log>>

SchedulePod(p, n) ==
    /\ Observed
    /\ podPhase[p] = "Pending"
    /\ SetPhase(p, "Running")
    /\ podNode' = [podNode EXCEPT ![p] = n]
    /\ UNCHANGED <<tasks, pc, driverVars, objMap, canceled,
                   checkVars, watchVars, log>>

----------------------------------------------------------------------------
Next ==
    \/ RunTask
    \/ ExecSubmitObj
    \/ ExecClusterTask
    \/ ExecSleep
    \/ ExecPause
    \/ ExecCheckPod
    \/ CheckPodsStep
    \/ WatchCtxDone
    \/ \E q \in {"informer", "lister"} : WatchRecv(q)
    \/ DeadlineExpires
    \/ InformerStart
    \/ \E p \in Pods : InformerEvent(p)
    \/ ListPods
    \/ ListIter
    \/ \E q \in {"informer", "lister"} : VerifyPodDelete(q)
    \/ Reset
    \/ Cancel
    \/ \E p \in Pods : CreatePod(p)
    \/ \E p \in Pods, n \in Nodes : SchedulePod(p, n)

Spec == Init /\ [][Next]_vars

\* The runs in which time passes, so that the timer of context.WithTimeout
\* fires, and in which the goroutine of watchPods, whose select has the case
\* <-ctx.Done() ready, gets to run.
FairInit == Init /\ tasks \in FairLists

\* The steps of a run of a SubmitObj and a CheckPod.
FairNext ==
    \/ RunTask
    \/ ExecSubmitObj
    \/ ExecCheckPod
    \/ CheckPodsStep
    \/ WatchCtxDone
    \/ \E q \in {"informer", "lister"} : WatchRecv(q)
    \/ DeadlineExpires
    \/ InformerStart
    \/ \E p \in Pods : InformerEvent(p)
    \/ ListPods
    \/ ListIter
    \/ \E q \in {"informer", "lister"} : VerifyPodDelete(q)
    \/ Reset
    \/ Cancel
    \/ \E p \in Pods : CreatePod(p)
    \/ \E p \in Pods, n \in Nodes : SchedulePod(p, n)

FairSpec ==
    /\ FairInit /\ [][FairNext]_vars
    /\ WF_vars(DeadlineExpires)
    /\ WF_vars(WatchCtxDone)

----------------------------------------------------------------------------
\* Properties

LogAt(op) == {a \in DOMAIN log : log[a].op = op}
Rets == LogAt("Ret")
Failed == {a \in Rets : log[a].err # "nil"}
\* The tasks whose SetObjInfo succeeded before position a of the log.
RegisteredBefore(a) == {log[b].i : b \in {c \in LogAt("SetObjInfo") : c < a /\ log[c].err = "nil"}}
IdsRegisteredBefore(a) == {tasks[i].id : i \in RegisteredBefore(a)}

\* C1: Run calls RunTask on the tasks in list order, one at a time: the k-th
\* GetTask is that of task k, an Exec follows the successful GetTask of its own
\* task, a later task is constructed or executed only after the earlier task's
\* RunTask has returned nil, and a run without an error has run every task.
C1_InOrderAbortOnError ==
    LET gets == LogAt("GetTask")
        execs == LogAt("Exec")
        rets == Rets
    IN  /\ \A a \in gets :
             log[a].i = Cardinality({b \in gets : b <= a})
        /\ \A b \in execs :
             b > 1 /\ log[b - 1] = Event("GetTask", log[b].i, "nil")
        /\ \A a \in gets, b \in gets \cup execs :
             (a < b /\ log[b].i # log[a].i) =>
                /\ log[b].i > log[a].i
                /\ \E c \in rets : a < c /\ c < b /\ log[c] = Event("Ret", log[a].i, "nil")
        /\ (pc = "done" /\ Failed = {}) =>
             \A i \in 1..Len(tasks) : \E c \in rets : log[c].i = i

\* A run of three tasks whose second task failed: the third was never constructed.
C1_Witness ==
    /\ pc = "done"
    /\ Len(tasks) = 3
    /\ \E c \in Failed : log[c].i = 2
    /\ \E b \in LogAt("Exec") : log[b].i = 1

\* C2: Run invokes Reset exactly once, whatever the outcome of the tasks, and
\* only after every RunTask call has returned: never twice, once when Run has
\* returned, and the call is the last of the run.
C2_ResetOnceAtEnd ==
    LET resets == LogAt("Reset")
        rets == Rets
    IN  /\ Cardinality(resets) <= 1
        /\ pc = "done" => Cardinality(resets) = 1
        /\ \A a \in resets :
             /\ a = Len(log)
             /\ pc = "done"
             /\ \A b \in LogAt("GetTask") :
                  \E c \in rets : b < c /\ c < a /\ log[c].i = log[b].i

\* Run has returned after a cancellation made a task fail, and Reset was called.
C2_Witness ==
    /\ pc = "done"
    /\ canceled
    /\ \E c \in Failed : log[c].err = "Canceled"
    /\ LogAt("Reset") # {}

AllSucceeded == \A i \in 1..Len(tasks) : \E c \in Rets : log[c].i = i /\ log[c].err = "nil"
FirstFailed == CHOOSE a \in Failed : \A b \in Failed : a <= b
ResetErr == log[Len(log)].err

\* C3: Run returns nil iff every task succeeded and Reset succeeded; it returns
\* the first task error when a task failed, also when Reset failed too; it
\* returns the error of Reset when every task succeeded and Reset failed.
C3_RunResult ==
    pc = "done" =>
        LET allSucceeded == AllSucceeded
            firstFailed == FirstFailed
        IN  /\ ret = NIL <=> (allSucceeded /\ ResetErr = "nil")
            /\ Failed # {} => ret = Err(log[firstFailed].err, log[firstFailed].i)
            /\ (allSucceeded /\ ResetErr # "nil") => ret = Err(ResetErr, 0)

\* A task failed and Reset failed too.
C3_Witness ==
    /\ pc = "done"
    /\ Failed # {}
    /\ ResetErr # "nil"
    /\ errReset # NIL

\* C4: GetTask of an UpdateObj, CheckObj, DeleteObj or CheckPod task whose
\* refTaskId has no Registry entry returns an error, the unreferenced-id error
\* when the task's own parameters are valid; so such a task's Exec runs only
\* after an earlier task of the list registered the id, and a list that starts
\* with such a task runs no Exec at all.
C4_UnreferencedFailsFast ==
    LET regs == {c \in LogAt("SetObjInfo") : log[c].err = "nil"}
        execs == LogAt("Exec")
    IN  /\ \A a \in LogAt("GetTask") :
             ( /\ tasks[log[a].i].type \in RefKinds
               /\ \A c \in regs : c < a => tasks[log[c].i].id # tasks[log[a].i].ref ) =>
                /\ log[a].err # "nil"
                /\ NewTask(tasks[log[a].i]) = "nil" => log[a].err = "Unreferenced"
        /\ \A b \in execs :
             tasks[log[b].i].type \in RefKinds =>
                \E c \in regs :
                    c < b /\ log[c].i < log[b].i /\ tasks[log[c].i].id = tasks[log[b].i].ref
        /\ (tasks # <<>> /\ tasks[1].type \in RefKinds) => execs = {}

\* A CheckPod at the head of the list was rejected for its unregistered
\* refTaskId, and the run ended without any Exec.
C4_Witness ==
    /\ pc = "done"
    /\ tasks # <<>>
    /\ tasks[1].type = "CheckPod"
    /\ log[1] = Event("GetTask", 1, "Unreferenced")
    /\ LogAt("Exec") = {}

\* The step is a call of SetObjInfo by task idx.
SetObjInfoCalled ==
    /\ Len(log') = Len(log) + 2
    /\ log'[Len(log) + 1].op = "SetObjInfo"

\* C5: SetObjInfo(taskId, info) with taskId in the Registry fails with the
\* duplicate-id error and leaves the Registry as it is; with taskId absent it
\* succeeds and adds that one entry, changing no other.
C5_SetObjInfo ==
    [][SetObjInfoCalled =>
        IF tasks[idx].id \in DOMAIN objMap
        THEN /\ log'[Len(log) + 1].err = "Duplicate"
             /\ objMap' = objMap
        ELSE /\ log'[Len(log) + 1].err = "nil"
             /\ DOMAIN objMap' = DOMAIN objMap \cup {tasks[idx].id}
             /\ objMap'[tasks[idx].id] = ObjInfoOf(tasks[idx])
             /\ \A k \in DOMAIN objMap : objMap'[k] = objMap[k]]_vars

\* A second SubmitObj with a registered id and another ObjInfo was refused,
\* and the entry is still the first one.
C5_Witness ==
    \E a \in LogAt("SetObjInfo") :
        /\ log[a].err = "Duplicate"
        /\ objMap[tasks[log[a].i].id] # ObjInfoOf(tasks[log[a].i])

\* C6: the Registry has an entry for id k iff a SubmitObj task with id k has
\* completed its SetObjInfo successfully earlier in the run, the entry being the
\* ObjInfo of the first such task; no step removes or replaces an entry.
C6_RegistryEntries ==
    /\ [](/\ DOMAIN objMap = IdsRegisteredBefore(Len(log) + 1)
          /\ \A i \in RegisteredBefore(Len(log) + 1) :
                /\ tasks[i].type = "SubmitObj"
                /\ Event("Ret", i, "nil") \in Range(log)
                /\ objMap[tasks[i].id] = ObjInfoOf(tasks[i]))
    /\ [][\A k \in DOMAIN objMap : k \in DOMAIN objMap' /\ objMap'[k] = objMap[k]]_vars

\* After the entry of job was made, a second SubmitObj of job failed and a
\* task of another kind completed: the entry is the first one.
C6_Witness ==
    /\ "job" \in DOMAIN objMap
    /\ \E a \in LogAt("SetObjInfo") : log[a].err = "Duplicate"
    /\ \E c \in Rets : tasks[log[c].i].type \in RefKinds /\ log[c].err = "nil"

\* C7: a watch-mode CheckPod with a status, one of whose expected pods never
\* had that phase during the watch, does not succeed, and that pod is in
\* remaining when it fails.
C7_StuckPodTimesOut ==
    (watchRet.err # "none" /\ task.status # "") =>
        \A p \in Range(info.pods) \ matched :
            /\ watchRet.err # "nil"
            /\ p \in watchRet.remaining

\* C8: a CheckPod with status Running and nodeLabels {nodeType: gpu} never
\* returns success when an expected pod runs on a node without the label.
C8_NoSuccessOnUnlabelledNode ==
    \A c \in Rets :
        LET t == tasks[log[c].i]
        IN  (t.type = "CheckPod" /\ t.status = "Running" /\ t.labels /\ log[c].err = "nil") =>
                \A p \in Range(objMap[t.ref].pods) :
                    ~(podPhase[p] = "Running" /\ ~NodeHasLabels(podNode[p]))

\* C9: during a watch-mode CheckPod the remaining set is a subset of the
\* ObjInfo's pods, and after the initial fill no step makes it larger or puts
\* a pod back.
C9_RemainingShrinks ==
    /\ [](pc = "watch" => podMap \subseteq Range(info.pods))
    /\ [][~(pc = "exec" /\ pc' = "watch") =>
            /\ podMap' \subseteq podMap
            /\ Cardinality(podMap') <= Cardinality(podMap)]_vars

\* A watch of two pods that has removed one of them.
C9_Witness ==
    /\ pc = "watch"
    /\ Len(info.pods) = 2
    /\ Cardinality(podMap) = 1

\* C10: a watch-mode CheckPod returns nil only with the remaining set empty.
C10_SuccessOnlyWhenEmpty ==
    watchRet.err = "nil" => watchRet.remaining = {}

\* A watch of two pods has returned nil.
C10_Witness ==
    /\ watchRet.err = "nil"
    /\ Len(info.pods) = 2
    /\ pc = "done"

\* What the loop body of checkPods is to decide for the pod called name: the
\* Get succeeds, the phase is the status, and a running pod sits on a node
\* with the labels.
Passes(t, name) ==
    /\ ~canceled
    /\ podPhase[name] = t.status
    /\ (t.labels /\ podPhase[name] = "Running") => NodeHasLabels(podNode[name])

LastLog == log[Len(log)]

\* C11: a CheckPod with timeout 0 and a pod list that is not empty goes to
\* checkPods and starts no informer and no List. Each round of checkPods
\* handles the next pod of ObjInfo.pods, starting from the first: a pod that
\* does not pass ends the task with an error at once, with no Get for a later
\* pod; a pod that passes moves on to the next pod, and the last pod passing
\* ends the task with nil.
C11_CheckPodsInOrder ==
    /\ [](pc = "checkPods" => chkIdx \in 1..Len(info.pods))
    /\ [][(pc = "exec" /\ pc' # pc /\ tasks[idx].type = "CheckPod"
             /\ tasks[idx].timeout = 0 /\ tasks[idx].ref \in DOMAIN objMap
             /\ Len(objMap[tasks[idx].ref].pods) > 0) =>
                /\ pc' = "checkPods"
                /\ chkIdx' = 1
                /\ info' = objMap[tasks[idx].ref]
                /\ UNCHANGED watchVars]_vars
    /\ [][(pc = "checkPods" /\ (pc' # pc \/ chkIdx' # chkIdx)) =>
                /\ UNCHANGED watchVars
                /\ IF ~Passes(task, info.pods[chkIdx])
                   THEN /\ pc' # "checkPods"
                        /\ chkIdx' = chkIdx
                        /\ log' = Append(log, LastLog')
                        /\ LastLog'.op = "Ret" /\ LastLog'.i = idx /\ LastLog'.err # "nil"
                   ELSE IF chkIdx = Len(info.pods)
                   THEN /\ pc' # "checkPods"
                        /\ log' = Append(log, Event("Ret", idx, "nil"))
                   ELSE /\ pc' = "checkPods"
                        /\ chkIdx' = chkIdx + 1
                        /\ log' = log]_vars

\* A CheckPod without timeout has returned nil after the check of its two
\* pods, with labels required.
C11_Witness ==
    /\ task.type = "CheckPod" /\ task.timeout = 0 /\ task.labels
    /\ Len(info.pods) = 2
    /\ chkIdx = 2
    /\ Len(log) > 0
    /\ LastLog.op = "Ret" /\ LastLog.err = "nil" /\ LastLog.i \in DOMAIN tasks
    /\ tasks[LastLog.i] = task

\* C12: Exec of a CheckPod whose ObjInfo has no pods returns nil in that very
\* step, whatever its timeout, status and nodeLabels are, and leaves the
\* cluster, the state of checkPods and the state of watchPods (context,
\* podMap, informer, List goroutine) as they were.
C12_NoPodsSucceedsAtOnce ==
    [][(pc = "exec" /\ pc' # pc /\ tasks[idx].type = "CheckPod"
         /\ tasks[idx].ref \in DOMAIN objMap
         /\ Len(objMap[tasks[idx].ref].pods) = 0) =>
            /\ log' = Append(log, Event("Ret", idx, "nil"))
            /\ UNCHANGED <<clusterVars, checkVars, watchVars>>]_vars

\* A CheckPod with a timeout, labels and an ObjInfo without pods has returned nil.
C12_Witness ==
    /\ Len(log) > 0
    /\ LastLog.op = "Ret" /\ LastLog.err = "nil" /\ LastLog.i \in DOMAIN tasks
    /\ LET t == tasks[LastLog.i]
       IN  /\ t.type = "CheckPod" /\ t.timeout > 0 /\ t.labels
           /\ t.ref \in DOMAIN objMap
           /\ Len(objMap[t.ref].pods) = 0

\* C13: a context of a watch-mode CheckPod with a status is at the Delete of
\* verifyPod only for a pod whose phase is that status.
C13_DeleteOnlyOnStatus ==
    \A q \in {"informer", "lister"} :
        (pc = "watch" /\ task.status # "" /\ vp[q].pc = "delete") =>
            vp[q].obj.phase = task.status

\* C14: a watch-mode CheckPod that returns with the remaining set empty
\* returns nil: it returns neither Timeout, nor Canceled, nor an error of a
\* verification with nothing left in the set.
C14_EmptyReturnsSuccess ==
    watchRet.err \notin {"none", "nil"} => watchRet.remaining # {}

\* C16: once watchPods has returned, neither the informer callback nor the
\* List goroutine is in a send on errs, which nothing receives from any more.
C16_NoSenderLeftBehind ==
    \A q \in {"informer", "lister"} :
        (pc # "watch" /\ watchRet.err # "none") => vp[q].pc \notin {"send", "sendList"}

\* C17: the informer callback and the List goroutine are never both in the
\* send of nil that follows a Delete returning size 0: the signal that the
\* remaining set is empty is produced at most once.
C17_OneCompletionSignal ==
    ~ \A q \in {"informer", "lister"} : vp[q].pc = "send" /\ vp[q].err = "nil"

\* The task whose SetObjInfo registered id: the task with that id whose
\* SetObjInfo returned nil.
Registrar(id) ==
    CHOOSE i \in DOMAIN tasks :
        \E a \in LogAt("SetObjInfo") :
            log[a].i = i /\ log[a].err = "nil" /\ tasks[i].id = id

\* C19: when Exec of a CheckPod that GetTask returned is about to run, the
\* Registry has an entry for its refTaskId and GetObjInfo returns it without
\* an error; the entry is the one that the SetObjInfo of the registering task
\* stored; no step removes or changes an entry; checkPods and watchPods work
\* on that entry; and no task returns the error of a failed lookup.
C19_LookupSucceeds ==
    /\ []((pc = "exec" /\ tasks[idx].type = "CheckPod") =>
            LET r == GetObjInfo(objMap, tasks[idx].ref)
            IN  /\ r.err = "nil"
                /\ r.info = ObjInfoOf(tasks[Registrar(tasks[idx].ref)]))
    /\ [][\A k \in DOMAIN objMap : k \in DOMAIN objMap' /\ objMap'[k] = objMap[k]]_vars
    /\ [](pc \in {"checkPods", "watch"} =>
            info = ObjInfoOf(tasks[Registrar(task.ref)]))
    /\ [](\A a \in Rets : log[a].err # "MissingID")

\* Exec of a CheckPod is about to look up an entry with two pods that the
\* first task registered.
C19_Witness ==
    /\ pc = "exec"
    /\ tasks[idx].type = "CheckPod"
    /\ tasks[idx].ref \in DOMAIN objMap
    /\ Len(objMap[tasks[idx].ref].pods) = 2
    /\ Registrar(tasks[idx].ref) = 1

\* C20: a CheckPod with nodeLabels and no status, in the loop of checkPods
\* with every expected pod running on a node that has the labels, passes the
\* pod it is about to check.
C20_LabelsOnlyNoTimeout ==
    ( /\ pc = "checkPods"
      /\ task.status = "" /\ task.labels
      /\ ~canceled
      /\ \A p \in Range(info.pods) :
            podPhase[p] = "Running" /\ NodeHasLabels(podNode[p]) )
    => checkPod(task, info.pods[chkIdx]) = "nil"

\* C18 as claimed: in a watch-mode CheckPod the List goroutine has issued its
\* List only with the informer running.
C18_ListAfterInformerRuns ==
    (pc = "watch" /\ vp["lister"].pc \notin {"off", "list"}) =>
        vp["informer"].pc \notin {"off", "starting"}

\* C18, amended: the List goroutine exists only once the handlers are
\* registered and informer.Run is started, running or not; a List that
\* succeeds returns every pod that exists then; and the informer gets to run
\* only while the context of watchPods is live.
C18_ListAfterHandlers ==
    /\ [](vp["lister"].pc # "off" => vp["informer"].pc # "off")
    /\ [][(vp["lister"].pc = "list" /\ vp["lister"].pc' = "iter") =>
            {items'[i].name : i \in DOMAIN items'} = {p \in Pods : podPhase[p] # "Absent"}]_vars
    /\ [][(vp["informer"].pc = "starting" /\ vp["informer"].pc' = "idle") =>
            wctx = "live"]_vars

\* The List of a live watch has returned pods with the informer running.
C18_Witness ==
    /\ pc = "watch"
    /\ wctx = "live"
    /\ vp["lister"].pc = "iter"
    /\ items # <<>>
    /\ vp["informer"].pc = "idle"

\* C15: every watch-mode CheckPod returns. What it returns is the error of
\* its context or a value that one of its contexts was sending on errs; it
\* returns Timeout only with the deadline having ended the context, and
\* Canceled only with the driver's context cancelled before the deadline.
C15_WatchReturns ==
    /\ (pc = "watch") ~> (pc # "watch")
    /\ [][(pc = "watch" /\ pc' # "watch") =>
            \/ watchRet'.err = wctx /\ wctx \in {"Timeout", "Canceled"}
            \/ \E q \in {"informer", "lister"} :
                  vp[q].pc \in {"send", "sendList"} /\ watchRet'.err = vp[q].err]_vars
    /\ [](watchRet.err = "Timeout" => wctx = "Timeout")
    /\ [](watchRet.err = "Canceled" => (canceled /\ wctx = "Canceled"))

\* A watch whose pod never appeared has returned Timeout with the pod still
\* in the remaining set and nothing sent on errs.
C15_Witness ==
    /\ watchRet = [err |-> "Timeout", remaining |-> {1}]
    /\ pc = "done"
    /\ podPhase[1] = "Absent"
    /\ \A q \in {"informer", "lister"} : vp[q].pc \notin {"send", "sendList"}

====
